---- MODULE Spec2Model ----
(***************************************************************************)
(* Software renderer of a small procedural solar system (3d_d/src/main.rs). *)
(*                                                                         *)
(* Numeric domain.  The program computes in f32.  The model keeps every    *)
(* scalar on an integer lattice:                                           *)
(*   - positions, scales and matrix entries are integers (pixels);         *)
(*   - angles are counted in quarter turns, so that sin_cos is exact; one   *)
(*     increment of an angle in the source is one lattice step here;       *)
(*   - zoom and colour components are fixed point, in hundredths;          *)
(*   - interpolated depth and barycentric weights are exact fractions.     *)
(* The scene (window size, sun position, radii, scales) is scaled down to  *)
(* a window of a few pixels; the structure of main is kept as written.     *)
(*                                                                         *)
(* The modules framebuffer, triangle, matrix, shaders, obj and vertex are  *)
(* declared by main.rs (lines 1-8) and modelled from their specification.  *)
(***************************************************************************)
EXTENDS Integers, Sequences, FiniteSets, TLC

VARIABLES
    pc,                   \* position of main: load, check, frame, render, shade, done, panicked; call/ret for a single call
    ip,                   \* index of the statement of the loop body being executed (frame_steps)
    framebuffer,          \* Framebuffer: width, height, background_color, buffer
    displayed,            \* what the window shows: the last buffer presented, or Nothing
    close_requested,      \* the window's close flag (window_should_close)
    rotation,             \* camera rotation <<x, y, z>>, quarter turns
    zoom,                 \* zoom factor, hundredths
    orbit_angle,          \* orbit angle, lattice steps
    obj,                  \* result of Obj::load: "unloaded", "ok", "err"
    vertex_array,         \* the mesh: a sequence of vertices <<x, y, z>>
    uniforms,             \* Uniforms of the draw call in progress
    transformed_vertices, \* transformed vertices of the draw call in progress
    shader_fn,            \* the shader of the draw call in progress
    chunk_idx,            \* number of chunks the for loop of render_with_shader has consumed
    fragments,            \* fragments of the triangle being shaded
    frag_idx,             \* number of fragments the inner for loop has consumed
    rasterized,           \* number of calls of triangle() in the draw call in progress
    frame,                \* number of loop iterations begun
    frame_log,            \* the statements completed in the current iteration, in order
    fn_in,                \* arguments of a single function call (pure-function specifications)
    fn_out                \* its result

vars == <<pc, ip, framebuffer, displayed, close_requested, rotation, zoom, orbit_angle,
          obj, vertex_array, uniforms, transformed_vertices, shader_fn, chunk_idx, fragments,
          frag_idx, rasterized, frame, frame_log, fn_in, fn_out>>

\* No value yet.
Nothing == <<>>

----------------------------------------------------------------------------
(* Scalars *)

Abs(n) == IF n < 0 THEN -n ELSE n

Sign(n) == IF n < 0 THEN -1 ELSE IF n > 0 THEN 1 ELSE 0

Min2(a, b) == IF a <= b THEN a ELSE b

Max2(a, b) == IF a >= b THEN a ELSE b

\* F applied to the value of v: v is evaluated once, however often F uses it.
WithValue(v, F(_)) == CHOOSE r \in {F(x) : x \in {v}} : TRUE

RECURSIVE Gcd(_, _)
Gcd(a, b) == IF b = 0 THEN a ELSE Gcd(b, a % b)

\* The fraction n/d (d # 0) in lowest terms with a positive denominator.
Frac(n, d) ==
    LET g == Gcd(Abs(n), Abs(d))
        s == Sign(d)
    IN  <<(s * n) \div g, (s * d) \div g>>

\* f32::sin_cos on the quarter-turn lattice: <<sin, cos>>.
sin_cos(a) ==
    CASE a % 4 = 0 -> <<0, 1>>
      [] a % 4 = 1 -> <<1, 0>>
      [] a % 4 = 2 -> <<0, -1>>
      [] OTHER     -> <<-1, 0>>

\* `v as i32` for an integer-valued float: saturating.
f32_as_i32(v) == Max2(-2147483647 - 1, Min2(2147483647, v))

----------------------------------------------------------------------------
(* Matrix: raylib's Matrix, fields m0..m15 held as a 16-tuple (m[i+1] = m<i>) *)

\* matrix::new_matrix4: arguments in row-major order, stored column-major.
new_matrix4(r0c0, r0c1, r0c2, r0c3, r1c0, r1c1, r1c2, r1c3, r2c0, r2c1, r2c2, r2c3, r3c0, r3c1, r3c2, r3c3) ==
    <<r0c0, r1c0, r2c0, r3c0,
      r0c1, r1c1, r2c1, r3c1,
      r0c2, r1c2, r2c2, r3c2,
      r0c3, r1c3, r2c3, r3c3>>

\* Field m(4i+j) of left * right (raylib): SUM_k left.m(4i+k) * right.m(4k+j).
mul_field(left, right, i, j) ==
    left[4*i + 1] * right[j + 1] + left[4*i + 2] * right[4 + j + 1]
    + left[4*i + 3] * right[8 + j + 1] + left[4*i + 4] * right[12 + j + 1]

\* The fields of left * right, for matrices given by value.
matrix_product(l, r) ==
    <<mul_field(l, r, 0, 0), mul_field(l, r, 0, 1), mul_field(l, r, 0, 2), mul_field(l, r, 0, 3),
      mul_field(l, r, 1, 0), mul_field(l, r, 1, 1), mul_field(l, r, 1, 2), mul_field(l, r, 1, 3),
      mul_field(l, r, 2, 0), mul_field(l, r, 2, 1), mul_field(l, r, 2, 2), mul_field(l, r, 2, 3),
      mul_field(l, r, 3, 0), mul_field(l, r, 3, 1), mul_field(l, r, 3, 2), mul_field(l, r, 3, 3)>>

\* Matrix * Matrix (raylib): the transform that applies left first and right second.
\* Both operands are evaluated once, as arguments passed by value are.
matrix_mul(left, right) ==
    WithValue(left, LAMBDA l : WithValue(right, LAMBDA r : matrix_product(l, r)))

\* The matrix m, given by value, applied to <<x, y, z, 1>>.
matrix_apply(m, v) ==
    <<m[1] * v[1] + m[5] * v[2] + m[9]  * v[3] + m[13],
      m[2] * v[1] + m[6] * v[2] + m[10] * v[3] + m[14],
      m[3] * v[1] + m[7] * v[2] + m[11] * v[3] + m[15]>>

\* Matrix applied to the position <<x, y, z>> with w = 1; no perspective division.
multiply_matrix_vector4(matrix, vector) ==
    WithValue(matrix, LAMBDA m : WithValue(vector, LAMBDA v : matrix_apply(m, v)))

\* The product written in the other order: translation first, scale last.
create_model_matrix_reversed(translation, scale, rot) ==
    LET sx == sin_cos(rot[1])
        sy == sin_cos(rot[2])
        sz == sin_cos(rot[3])
        rotation_matrix_x == new_matrix4(1, 0, 0, 0, 0, sx[2], -sx[1], 0, 0, sx[1], sx[2], 0, 0, 0, 0, 1)
        rotation_matrix_y == new_matrix4(sy[2], 0, sy[1], 0, 0, 1, 0, 0, -sy[1], 0, sy[2], 0, 0, 0, 0, 1)
        rotation_matrix_z == new_matrix4(sz[2], -sz[1], 0, 0, sz[1], sz[2], 0, 0, 0, 0, 1, 0, 0, 0, 0, 1)
        rotation_matrix == matrix_mul(matrix_mul(rotation_matrix_z, rotation_matrix_y), rotation_matrix_x)
        scale_matrix == new_matrix4(scale, 0, 0, 0, 0, scale, 0, 0, 0, 0, scale, 0, 0, 0, 0, 1)
        translation_matrix == new_matrix4(1, 0, 0, translation[1], 0, 1, 0, translation[2],
                                          0, 0, 1, translation[3], 0, 0, 0, 1)
    IN  matrix_mul(matrix_mul(translation_matrix, rotation_matrix), scale_matrix)

create_model_matrix(translation, scale, rot) ==
    LET sx == sin_cos(rot[1])
        sy == sin_cos(rot[2])
        sz == sin_cos(rot[3])
        rotation_matrix_x == new_matrix4(1, 0, 0, 0, 0, sx[2], -sx[1], 0, 0, sx[1], sx[2], 0, 0, 0, 0, 1)
        rotation_matrix_y == new_matrix4(sy[2], 0, sy[1], 0, 0, 1, 0, 0, -sy[1], 0, sy[2], 0, 0, 0, 0, 1)
        rotation_matrix_z == new_matrix4(sz[2], -sz[1], 0, 0, sz[1], sz[2], 0, 0, 0, 0, 1, 0, 0, 0, 0, 1)
        rotation_matrix == matrix_mul(matrix_mul(rotation_matrix_z, rotation_matrix_y), rotation_matrix_x)
        scale_matrix == new_matrix4(scale, 0, 0, 0, 0, scale, 0, 0, 0, 0, scale, 0, 0, 0, 0, 1)
        translation_matrix == new_matrix4(1, 0, 0, translation[1], 0, 1, 0, translation[2],
                                          0, 0, 1, translation[3], 0, 0, 0, 1)
    IN  matrix_mul(matrix_mul(scale_matrix, rotation_matrix), translation_matrix)

\* shaders::vertex_shader: the model matrix applied to the vertex position.
vertex_shader(v, u) == multiply_matrix_vector4(u.model_matrix, v)

----------------------------------------------------------------------------
(* Colours: <<r, g, b>>, components in hundredths *)

BLACK == <<0, 0, 0>>

\* Largest integer not above the fraction d.
FloorFrac(d) == d[1] \div d[2]

\* shaders::star_shader: bright warm colour, slightly darker with depth; never black.
star_shader(v) ==
    LET fall == Min2(2, Abs(FloorFrac(v[3])))
    IN  <<100, 90 - 10 * fall, 60 - 20 * fall>>

\* shaders::rocky_shader: mottled colour varying with position.
rocky_shader(v) ==
    LET n == (3 * v[1] + 5 * v[2] + FloorFrac(v[3])) % 4
    IN  <<40 + 10 * n, 30 + 5 * n, 20>>

\* shaders::gas_shader: bands along the y axis.
gas_shader(v) ==
    LET b == v[2] % 3
    IN  <<70, 50 + 10 * b, 30 + 20 * b>>

\* A call through the function pointer shader_fn: fn(&Vector3) -> Vector3.
call_shader(f, v) ==
    CASE f = "star_shader"  -> star_shader(v)
      [] f = "rocky_shader" -> rocky_shader(v)
      [] OTHER                -> gas_shader(v)

----------------------------------------------------------------------------
(* Framebuffer *)

Pixels(w, h) == (0..(w - 1)) \X (0..(h - 1))

\* Framebuffer::new: a width x height grid, every pixel unset (black).
Framebuffer_new(w, h) ==
    [width |-> w, height |-> h, background_color |-> BLACK,
     buffer |-> [p \in Pixels(w, h) |-> BLACK]]

set_background_color(fb, color) == [fb EXCEPT !.background_color = color]

\* Framebuffer::clear: every pixel becomes the background colour.
clear(fb) == [fb EXCEPT !.buffer = [p \in Pixels(fb.width, fb.height) |-> fb.background_color]]

in_bounds(fb, x, y) == x >= 0 /\ x < fb.width /\ y >= 0 /\ y < fb.height

\* Framebuffer::point: one pixel written if in bounds, otherwise nothing.
point(fb, x, y, color) ==
    IF in_bounds(fb, x, y)
    THEN [fb EXCEPT !.buffer = [@ EXCEPT ![<<x, y>>] = color]]
    ELSE fb

----------------------------------------------------------------------------
(* Rasterizer *)

\* Twice the signed area of the triangle a, b, c (x, y only).
edge_function(a, b, c) == (c[1] - a[1]) * (b[2] - a[2]) - (c[2] - a[2]) * (b[1] - a[1])

\* Barycentric coordinates of p in the triangle a, b, c of signed area `area` # 0.
barycentric_coordinates(p, a, b, c, area) ==
    <<Frac(edge_function(b, c, p), area),
      Frac(edge_function(c, a, p), area),
      Frac(edge_function(a, b, p), area)>>

\* The sum of three fractions, weighted by integers.
WeightedSum(w, z1, z2, z3) ==
    Frac(w[1][1] * z1 * w[2][2] * w[3][2] + w[2][1] * z2 * w[1][2] * w[3][2]
         + w[3][1] * z3 * w[1][2] * w[2][2],
         w[1][2] * w[2][2] * w[3][2])

\* The fragment at pixel p of the triangle a, b, c of signed area `area` # 0, if all
\* three barycentric coordinates of p are >= 0; otherwise no fragment.
fragment_at(p, a, b, c, area) ==
    WithValue(barycentric_coordinates(p, a, b, c, area),
              LAMBDA w : IF w[1][1] >= 0 /\ w[2][1] >= 0 /\ w[3][1] >= 0
                         THEN <<[position |-> p, depth |-> WeightedSum(w, a[3], b[3], c[3])]>>
                         ELSE <<>>)

\* The pixels of the bounding box of a, b, c in row-major order, each with its
\* fragment or none.
scan(a, b, c) ==
    LET min_x == Min2(a[1], Min2(b[1], c[1]))
        max_x == Max2(a[1], Max2(b[1], c[1]))
        min_y == Min2(a[2], Min2(b[2], c[2]))
        max_y == Max2(a[2], Max2(b[2], c[2]))
        w     == max_x - min_x + 1
        h     == max_y - min_y + 1
    IN  [i \in 1..(w * h) |->
            fragment_at(<<min_x + ((i - 1) % w), min_y + ((i - 1) \div w)>>, a, b, c,
                        edge_function(a, b, c))]

\* The fragments of the triangle a, b, c given by value.
rasterize(a, b, c) ==
    IF edge_function(a, b, c) = 0 THEN <<>>
    ELSE WithValue(SelectSeq(scan(a, b, c), LAMBDA f : f # <<>>),
                   LAMBDA found : [i \in 1..Len(found) |-> found[i][1]])

\* triangle::triangle: the fragments of the triangle v1, v2, v3, in row-major order
\* over its bounding box; none for a triangle of zero area.  The vertices are
\* evaluated once, as arguments passed by reference are.
triangle(v1, v2, v3) ==
    WithValue(<<v1, v2, v3>>, LAMBDA t : rasterize(t[1], t[2], t[3]))

----------------------------------------------------------------------------
(* render_with_shader *)

\* [T]::chunks(n): consecutive runs of n elements, the last one possibly shorter.
chunks_windows(s, n) ==
    IF Len(s) < n THEN <<>> ELSE [k \in 1..(Len(s) - n + 1) |-> SubSeq(s, k, k + n - 1)]

chunks(s, n) ==
    [k \in 1..((Len(s) + n - 1) \div n) |-> SubSeq(s, n * (k - 1) + 1, Min2(n * k, Len(s)))]

\* let fragments = triangle(&tri[0], &tri[1], &tri[2])
chunk_fragments_typo(tri) == triangle(tri[1], tri[2], tri[2])

chunk_fragments(tri) == triangle(tri[1], tri[2], tri[3])

transform_vertices(vs, u) == [i \in 1..Len(vs) |-> vertex_shader(vs[i], u)]

----------------------------------------------------------------------------
(* The scene of main, scaled down (the source's values in comments) *)

window_width == 8                \* 900

window_height == 6               \* 600

sun_position == <<window_width \div 2, window_height \div 2, 0>>    \* (450, 300, 0)

sun_scale == 2                   \* 185.0

rocky_scale == 1                 \* 25.0

gas_scale == 1                   \* 60.0

rocky_orbit_radius == 2          \* 200.0

gas_orbit_radius == 3            \* 320.0

background == <<2, 2, 5>>        \* Vector3::new(0.02, 0.02, 0.05)

\* Loop iterations explored.
MaxFrames == 3

\* Key states the window reports during one iteration.
KeySets ==
    { {}, {"KEY_LEFT", "KEY_UP", "KEY_A"}, {"KEY_RIGHT", "KEY_DOWN", "KEY_S"},
      {"KEY_LEFT", "KEY_RIGHT", "KEY_A", "KEY_S"} }

\* Meshes Obj::load may return (vertex coordinates of a unit model).
Meshes ==
    { <<>>,
      << <<-1, -1, 0>>, <<1, -1, 0>>, <<0, 1, 0>> >>,
      << <<-1, 0, 0>>, <<0, 0, 0>>, <<1, 0, 0>>,   <<0, 0, 1>>, <<1, 0, 1>>, <<0, 1, 1>> >>,
      << <<0, 0, 0>>, <<1, 1, 0>>, <<-1, 1, 1>>,   <<1, 0, 0>> >>,
      << <<0, 0, 0>>, <<1, 0, 1>> >>,
      << <<-1, -1, 0>>, <<1, -1, 0>>, <<-1, 1, 0>>,   <<-1, -1, 1>>, <<1, 1, 1>>, <<-1, 1, 1>>,
         <<0, 0, 1>>, <<0, 0, 1>> >> }

\* The statements of the loop body, in program order.
frame_steps_clear_late == <<"input", "sun", "clear", "rocky", "gas", "present", "sleep">>

frame_steps_rocky_first == <<"input", "clear", "rocky", "sun", "gas", "present", "sleep">>

frame_steps == <<"input", "clear", "sun", "rocky", "gas", "present", "sleep">>

Bodies == {"sun", "rocky", "gas"}

\* The shader each draw call passes.
body_shader(b) ==
    CASE b = "sun"   -> "star_shader"
      [] b = "rocky" -> "rocky_shader"
      [] OTHER       -> "gas_shader"

\* rocky_pos and gas_pos of the iteration (gas runs at 0.7 of the orbit angle).
body_position(b, angle) ==
    CASE b = "sun"   -> sun_position
      [] b = "rocky" -> <<sun_position[1] + rocky_orbit_radius * sin_cos(angle)[2],
                          sun_position[2] + rocky_orbit_radius * sin_cos(angle)[1], 0>>
      [] OTHER       -> <<sun_position[1] + gas_orbit_radius * sin_cos((angle * 7) \div 10)[2],
                          sun_position[2] + gas_orbit_radius * sin_cos((angle * 7) \div 10)[1], 0>>

\* 185.0 * zoom, 25.0 * zoom, 60.0 * zoom.
body_scale(b, z) ==
    CASE b = "sun"   -> (sun_scale * z) \div 100
      [] b = "rocky" -> (rocky_scale * z) \div 100
      [] OTHER       -> (gas_scale * z) \div 100

body_uniforms(b, angle, z, rot) ==
    [model_matrix |-> create_model_matrix(body_position(b, angle), body_scale(b, z), rot)]

----------------------------------------------------------------------------
(* main *)

camera == <<rotation, zoom, orbit_angle>>

mesh == <<obj, vertex_array>>

draw == <<uniforms, transformed_vertices, shader_fn, chunk_idx, fragments, frag_idx, rasterized>>

call == <<fn_in, fn_out>>

\* Everything but pc, framebuffer and a single call's arguments, as main starts with it.
MainIdle ==
    /\ ip = 0
    /\ displayed = Nothing
    /\ close_requested = FALSE
    /\ rotation = <<0, 0, 0>>
    /\ zoom = 100
    /\ orbit_angle = 0
    /\ obj = "unloaded"
    /\ vertex_array = <<>>
    /\ uniforms = [model_matrix |-> Nothing]
    /\ transformed_vertices = <<>>
    /\ shader_fn = "none"
    /\ chunk_idx = 0
    /\ fragments = <<>>
    /\ frag_idx = 0
    /\ rasterized = 0
    /\ frame = 0
    /\ frame_log = <<>>

Init ==
    /\ pc = "load"
    /\ framebuffer = set_background_color(Framebuffer_new(window_width, window_height), background)
    /\ fn_in = Nothing
    /\ fn_out = Nothing
    /\ MainIdle

\* The statement after statement ip of the loop body; after the last one, the loop
\* condition.  A call made outside the loop (ip = 0) returns to its caller.
Advance ==
    IF ip = 0
    THEN pc' = "ret" /\ ip' = 0
    ELSE IF ip = Len(frame_steps)
         THEN pc' = "check" /\ ip' = 0
         ELSE pc' = "frame" /\ ip' = ip + 1

AtStep(name) == pc = "frame" /\ ip \in 1..Len(frame_steps) /\ frame_steps[ip] = name

\* A failed load replaced by an empty mesh instead of a panic.
LoadObj_or_default ==
    /\ pc = "load"
    /\ \/ \E m \in Meshes : obj' = "ok" /\ vertex_array' = m
       \/ obj' = "err" /\ vertex_array' = <<>>
    /\ pc' = "check"
    /\ UNCHANGED <<ip, framebuffer, displayed, close_requested, camera, draw, frame, frame_log, call>>

\* Obj::load(..).expect(..) and get_vertex_array: a mesh, or a panic.
LoadObj ==
    /\ pc = "load"
    /\ \/ \E m \in Meshes : obj' = "ok" /\ vertex_array' = m /\ pc' = "check"
       \/ obj' = "err" /\ vertex_array' = vertex_array /\ pc' = "panicked"
    /\ UNCHANGED <<ip, framebuffer, displayed, close_requested, camera, draw, frame, frame_log, call>>

\* The loop leaves after one iteration whatever the window reports.
LoopCheck_once ==
    /\ pc = "check"
    /\ IF close_requested \/ frame >= 1
       THEN pc' = "done" /\ UNCHANGED <<ip, frame, frame_log>>
       ELSE /\ frame < MaxFrames
            /\ pc' = "frame" /\ ip' = 1 /\ frame' = frame + 1 /\ frame_log' = <<>>
    /\ UNCHANGED <<framebuffer, displayed, close_requested, camera, mesh, draw, call>>

\* while !window.window_should_close()
LoopCheck ==
    /\ pc = "check"
    /\ IF close_requested
       THEN pc' = "done" /\ UNCHANGED <<ip, frame, frame_log>>
       ELSE /\ frame < MaxFrames
            /\ pc' = "frame" /\ ip' = 1 /\ frame' = frame + 1 /\ frame_log' = <<>>
    /\ UNCHANGED <<framebuffer, displayed, close_requested, camera, mesh, draw, call>>

\* Camera keys, zoom keys and the orbit angle of the iteration.
HandleInput ==
    /\ AtStep("input")
    /\ \E keys \in KeySets :
        LET y1 == IF "KEY_LEFT"  \in keys THEN rotation[2] - 1 ELSE rotation[2]
            y2 == IF "KEY_RIGHT" \in keys THEN y1 + 1 ELSE y1
            x1 == IF "KEY_UP"    \in keys THEN rotation[1] - 1 ELSE rotation[1]
            x2 == IF "KEY_DOWN"  \in keys THEN x1 + 1 ELSE x1
            z1 == IF "KEY_A" \in keys THEN (zoom * 102) \div 100 ELSE zoom
            z2 == IF "KEY_S" \in keys THEN (z1 * 98) \div 100 ELSE z1
        IN  rotation' = <<x2, y2, rotation[3]>> /\ zoom' = z2
    /\ orbit_angle' = orbit_angle + 1
    /\ frame_log' = Append(frame_log, "input")
    /\ Advance
    /\ UNCHANGED <<framebuffer, displayed, close_requested, mesh, draw, frame, call>>

\* framebuffer.clear()
Clear ==
    /\ AtStep("clear")
    /\ framebuffer' = clear(framebuffer)
    /\ frame_log' = Append(frame_log, "clear")
    /\ Advance
    /\ UNCHANGED <<displayed, close_requested, camera, mesh, draw, frame, call>>

\* create_model_matrix, Uniforms and the entry of render_with_shader: every vertex transformed.
BeginDraw ==
    /\ pc = "frame" /\ ip \in 1..Len(frame_steps) /\ frame_steps[ip] \in Bodies
    /\ uniforms' = body_uniforms(frame_steps[ip], orbit_angle, zoom, rotation)
    /\ transformed_vertices' = transform_vertices(vertex_array, uniforms')
    /\ shader_fn' = body_shader(frame_steps[ip])
    /\ chunk_idx' = 0
    /\ rasterized' = 0
    /\ pc' = "render"
    /\ UNCHANGED <<ip, framebuffer, displayed, close_requested, camera, mesh, fragments, frag_idx,
                   frame, frame_log, call>>

\* The for loop over the chunks left as soon as a triangle yields no fragment.
NextChunk_stop_on_empty ==
    /\ pc = "render"
    /\ chunk_idx < Len(chunks(transformed_vertices, 3))
    /\ LET tri == chunks(transformed_vertices, 3)[chunk_idx + 1]
       IN  IF Len(tri) < 3
           THEN /\ chunk_idx' = chunk_idx + 1
                /\ UNCHANGED <<pc, fragments, frag_idx, rasterized>>
           ELSE /\ fragments' = chunk_fragments(tri)
                /\ frag_idx' = 0
                /\ rasterized' = rasterized + 1
                /\ pc' = IF fragments' = <<>> THEN "render" ELSE "shade"
                /\ chunk_idx' = IF fragments' = <<>> THEN Len(chunks(transformed_vertices, 3))
                                ELSE chunk_idx + 1
    /\ UNCHANGED <<ip, framebuffer, displayed, close_requested, camera, mesh, uniforms,
                   transformed_vertices, shader_fn, frame, frame_log, call>>

\* for tri in transformed_vertices.chunks(3): a short chunk is skipped, a whole one rasterized.
NextChunk ==
    /\ pc = "render"
    /\ chunk_idx < Len(chunks(transformed_vertices, 3))
    /\ chunk_idx' = chunk_idx + 1
    /\ LET tri == chunks(transformed_vertices, 3)[chunk_idx + 1]
       IN  IF Len(tri) < 3
           THEN UNCHANGED <<pc, fragments, frag_idx, rasterized>>
           ELSE /\ fragments' = chunk_fragments(tri)
                /\ frag_idx' = 0
                /\ rasterized' = rasterized + 1
                /\ pc' = IF fragments' = <<>> THEN "render" ELSE "shade"
    /\ UNCHANGED <<ip, framebuffer, displayed, close_requested, camera, mesh, uniforms,
                   transformed_vertices, shader_fn, frame, frame_log, call>>

\* The pixel written with its coordinates exchanged.
ShadeFragment_swapped ==
    /\ pc = "shade"
    /\ frag_idx < Len(fragments)
    /\ LET frag  == fragments[frag_idx + 1]
           color == call_shader(shader_fn, <<frag.position[1], frag.position[2], frag.depth>>)
       IN  framebuffer' = point(framebuffer, f32_as_i32(frag.position[2]),
                                f32_as_i32(frag.position[1]), color)
    /\ IF frag_idx + 1 = Len(fragments)
       THEN pc' = "render" /\ fragments' = <<>> /\ frag_idx' = 0
       ELSE pc' = pc /\ fragments' = fragments /\ frag_idx' = frag_idx + 1
    /\ UNCHANGED <<ip, displayed, close_requested, camera, mesh, uniforms, transformed_vertices,
                   shader_fn, chunk_idx, rasterized, frame, frame_log, call>>

\* for frag in fragments: the fragment is shaded and written; after the last one the
\* fragments are dropped and the loop over the chunks goes on.
ShadeFragment ==
    /\ pc = "shade"
    /\ frag_idx < Len(fragments)
    /\ LET frag  == fragments[frag_idx + 1]
           color == call_shader(shader_fn, <<frag.position[1], frag.position[2], frag.depth>>)
       IN  framebuffer' = point(framebuffer, f32_as_i32(frag.position[1]),
                                f32_as_i32(frag.position[2]), color)
    /\ IF frag_idx + 1 = Len(fragments)
       THEN pc' = "render" /\ fragments' = <<>> /\ frag_idx' = 0
       ELSE pc' = pc /\ fragments' = fragments /\ frag_idx' = frag_idx + 1
    /\ UNCHANGED <<ip, displayed, close_requested, camera, mesh, uniforms, transformed_vertices,
                   shader_fn, chunk_idx, rasterized, frame, frame_log, call>>

\* The loop over the chunks is exhausted: render_with_shader returns.
EndDraw ==
    /\ pc = "render"
    /\ chunk_idx >= Len(chunks(transformed_vertices, 3))
    /\ frame_log' = IF ip = 0 THEN frame_log ELSE Append(frame_log, frame_steps[ip])
    /\ Advance
    /\ UNCHANGED <<framebuffer, displayed, close_requested, camera, mesh, draw, frame, call>>

\* framebuffer.swap_buffers: the window shows the buffer as it is now.
SwapBuffers ==
    /\ AtStep("present")
    /\ displayed' = framebuffer.buffer
    /\ frame_log' = Append(frame_log, "present")
    /\ Advance
    /\ UNCHANGED <<framebuffer, close_requested, camera, mesh, draw, frame, call>>

\* thread::sleep(16 ms)
Sleep ==
    /\ AtStep("sleep")
    /\ frame_log' = Append(frame_log, "sleep")
    /\ Advance
    /\ UNCHANGED <<framebuffer, displayed, close_requested, camera, mesh, draw, frame, call>>

\* The user asks the window to close; the flag stays set.
UserClose ==
    /\ pc \in {"load", "check", "frame", "render", "shade"}
    /\ ~close_requested
    /\ close_requested' = TRUE
    /\ UNCHANGED <<pc, ip, framebuffer, displayed, camera, mesh, draw, frame, frame_log, call>>

\* The steps main itself takes.
Program ==
    \/ LoadObj
    \/ LoopCheck
    \/ HandleInput
    \/ Clear
    \/ BeginDraw
    \/ NextChunk
    \/ ShadeFragment
    \/ EndDraw
    \/ SwapBuffers
    \/ Sleep

Next == Program \/ UserClose

Spec == Init /\ [][Next]_vars

\* main runs on its own thread and is never suspended for ever.
FairSpec == Init /\ [][Next]_vars /\ WF_vars(Program)

----------------------------------------------------------------------------
(* Single calls: create_model_matrix, the rasterization of one chunk, and   *)
(* one draw call into a 10 x 10 framebuffer                                *)

MainUnchanged ==
    UNCHANGED <<ip, displayed, close_requested, camera, mesh, draw, frame, frame_log>>

Vec3(S) == S \X S \X S

\* Largest scale factor tried.
MaxScale == 3

\* Largest pixel coordinate of a vertex handed to the rasterizer.
MaxCoord == 4

MatrixInputs ==
    [translation : Vec3({-2, 0, 3}), scale : -1..MaxScale,
     rotation : {<<0, 0, 0>>, <<1, 0, 0>>, <<0, 1, 0>>, <<0, 0, 1>>, <<1, 2, 3>>},
     p : Vec3(-1..1)]

MatrixInit ==
    /\ pc = "call"
    /\ framebuffer = Nothing
    /\ fn_in \in MatrixInputs
    /\ fn_out = Nothing
    /\ MainIdle

\* create_model_matrix(translation, scale, rotation), then the vertex stage on p and on the origin.
CallCreateModelMatrix ==
    /\ pc = "call"
    /\ LET u == [model_matrix |-> create_model_matrix(fn_in.translation, fn_in.scale, fn_in.rotation)]
       IN  fn_out' = [model_matrix |-> u.model_matrix,
                      position     |-> vertex_shader(fn_in.p, u),
                      origin       |-> vertex_shader(<<0, 0, 0>>, u)]
    /\ pc' = "ret"
    /\ UNCHANGED <<framebuffer, fn_in>>
    /\ MainUnchanged

MatrixSpec == MatrixInit /\ [][CallCreateModelMatrix]_vars

RasterInputs ==
    { <<<<x[1], y[1], z[1]>>, <<x[2], y[2], z[2]>>, <<x[3], y[3], z[3]>>>> :
        x \in Vec3(0..MaxCoord), y \in Vec3(0..MaxCoord), z \in {<<0, 0, 0>>, <<0, 3, 5>>} }

RasterInit ==
    /\ pc = "call"
    /\ framebuffer = Nothing
    /\ fn_in \in RasterInputs
    /\ fn_out = Nothing
    /\ MainIdle

\* The rasterization of one chunk of three transformed vertices.
CallChunkFragments ==
    /\ pc = "call"
    /\ fn_out' = chunk_fragments(fn_in)
    /\ pc' = "ret"
    /\ UNCHANGED <<framebuffer, fn_in>>
    /\ MainUnchanged

RasterSpec == RasterInit /\ [][CallChunkFragments]_vars

\* The triangles drawn into the 10 x 10 framebuffer: inside it, across its edges, around it.
ScenarioInputs ==
    { <<<<x[1], y[1], 0>>, <<x[2], y[2], 0>>, <<x[3], y[3], z>>>> :
        x \in Vec3({-2, 3, 11}), y \in Vec3({-2, 3, 11}), z \in {0, 5} }

ScenarioInit ==
    /\ pc = "call"
    /\ framebuffer = set_background_color(Framebuffer_new(10, 10), BLACK)
    /\ fn_in \in ScenarioInputs
    /\ fn_out = Nothing
    /\ MainIdle

ScenarioClear ==
    /\ pc = "call"
    /\ framebuffer' = clear(framebuffer)
    /\ pc' = "cleared"
    /\ UNCHANGED call
    /\ MainUnchanged

\* render_with_shader(framebuffer, uniforms, the triangle, star_shader) is entered,
\* with the identity as model matrix.
ScenarioBeginDraw ==
    /\ pc = "cleared"
    /\ uniforms' = [model_matrix |-> create_model_matrix(<<0, 0, 0>>, 1, <<0, 0, 0>>)]
    /\ transformed_vertices' = transform_vertices(fn_in, uniforms')
    /\ shader_fn' = "star_shader"
    /\ chunk_idx' = 0
    /\ rasterized' = 0
    /\ pc' = "render"
    /\ UNCHANGED <<ip, framebuffer, displayed, close_requested, camera, mesh, fragments, frag_idx,
                   frame, frame_log, call>>

ScenarioNext ==
    \/ ScenarioClear
    \/ ScenarioBeginDraw
    \/ NextChunk
    \/ ShadeFragment
    \/ EndDraw

ScenarioSpec == ScenarioInit /\ [][ScenarioNext]_vars

----------------------------------------------------------------------------
(* Properties *)

Range(s) == {s[i] : i \in 1..Len(s)}

IsPrefix(s, t) == Len(s) <= Len(t) /\ \A i \in 1..Len(s) : s[i] = t[i]

\* p lies in the closed triangle a, b, c of non-zero area: on the inner side of
\* each of its three edges.
InClosedTriangle(p, a, b, c) ==
    LET o1 == (b[1] - a[1]) * (p[2] - a[2]) - (b[2] - a[2]) * (p[1] - a[1])
        o2 == (c[1] - b[1]) * (p[2] - b[2]) - (c[2] - b[2]) * (p[1] - b[1])
        o3 == (a[1] - c[1]) * (p[2] - c[2]) - (a[2] - c[2]) * (p[1] - c[1])
    IN  /\ o1 + o2 + o3 # 0
        /\ \/ o1 >= 0 /\ o2 >= 0 /\ o3 >= 0
           \/ o1 <= 0 /\ o2 <= 0 /\ o3 <= 0

BoundingBox(a, b, c) ==
    { p \in (Min2(a[1], Min2(b[1], c[1]))..Max2(a[1], Max2(b[1], c[1])))
            \X (Min2(a[2], Min2(b[2], c[2]))..Max2(a[2], Max2(b[2], c[2]))) : TRUE }

Positions(fs) == {fs[i].position : i \in 1..Len(fs)}

\* The chunk the loop of render_with_shader is about to take, by index arithmetic:
\* vertices 3k, 3k+1, 3k+2, or nothing if fewer than three are left.
NextTriple ==
    LET k == chunk_idx
    IN  IF 3 * k + 3 <= Len(transformed_vertices)
        THEN <<transformed_vertices[3 * k + 1], transformed_vertices[3 * k + 2],
               transformed_vertices[3 * k + 3]>>
        ELSE <<>>

\* A step of the loop over the chunks, and a step of the loop over the fragments.
ChunkStep == pc = "render" /\ chunk_idx' # chunk_idx

FragmentStep == pc = "shade" /\ (frag_idx' # frag_idx \/ pc' # pc)

(* C1: a call point(x, y, color) with x < 0, x >= width, y < 0 or           *)
(* y >= height raises nothing and leaves every pixel of the buffer as it    *)
(* was; the loop over the fragments goes on with the next fragment.         *)
C1_OutOfBoundsWritesDropped ==
    [][(FragmentStep /\ ~in_bounds(framebuffer, fragments[frag_idx + 1].position[1],
                                   fragments[frag_idx + 1].position[2]))
        => /\ framebuffer' = framebuffer
           /\ \/ pc' = "shade" /\ frag_idx' = frag_idx + 1
              \/ pc' = "render" /\ frag_idx + 1 = Len(fragments)]_vars

\* A fragment outside the buffer has just been passed to point, after one inside it.
C1_Witness ==
    /\ pc = "shade" /\ frag_idx >= 2
    /\ ~in_bounds(framebuffer, fragments[frag_idx].position[1], fragments[frag_idx].position[2])
    /\ \E i \in 1..(frag_idx - 1) :
          in_bounds(framebuffer, fragments[i].position[1], fragments[i].position[2])

(* C2: with rotation (0,0,0), the matrix create_model_matrix(T, s, 0) maps  *)
(* the origin to T and any point p to s*p + T.                              *)
C2_ScaleThenTranslate ==
    (pc = "ret" /\ fn_in.rotation = <<0, 0, 0>>) =>
        /\ fn_out.origin = fn_in.translation
        /\ fn_out.position = [k \in 1..3 |-> fn_in.scale * fn_in.p[k] + fn_in.translation[k]]

C2_Witness ==
    /\ pc = "ret" /\ fn_in.rotation = <<0, 0, 0>>
    /\ fn_in.scale = 2 /\ fn_in.translation = <<3, -2, 3>> /\ fn_in.p = <<1, -1, 1>>
    /\ fn_out.position = <<5, -4, 5>>

(* C3: the fragments of a triangle are exactly the integer points of its    *)
(* bounding box that lie in the closed triangle (all barycentric            *)
(* coordinates >= 0), each once; for (0,0,0),(4,0,0),(0,4,0) they are the   *)
(* 15 lattice points with x >= 0, y >= 0 and x + y <= 4.                    *)
C3_FragmentsAreClosedTriangle ==
    pc = "ret" =>
        /\ Positions(fn_out) =
              {p \in BoundingBox(fn_in[1], fn_in[2], fn_in[3]) :
                  InClosedTriangle(p, fn_in[1], fn_in[2], fn_in[3])}
        /\ Cardinality(Positions(fn_out)) = Len(fn_out)
        /\ fn_in = << <<0, 0, 0>>, <<4, 0, 0>>, <<0, 4, 0>> >> =>
              /\ Positions(fn_out) = {p \in (0..4) \X (0..4) : p[1] + p[2] <= 4}
              /\ Len(fn_out) = 15

C3_Witness ==
    /\ pc = "ret"
    /\ fn_in = << <<0, 0, 0>>, <<4, 0, 0>>, <<0, 4, 0>> >>
    /\ <<4, 0>> \in Positions(fn_out) /\ <<2, 2>> \in Positions(fn_out)

(* C4: a triangle of zero signed area (collinear or coincident vertices)    *)
(* yields no fragment and no error: the loop step that takes it writes no   *)
(* pixel and goes on to the next chunk, and the draw call returns only once *)
(* every chunk has been taken.                                              *)
C4_DegenerateTriangleSkipped ==
    [][/\ (ChunkStep /\ NextTriple # <<>>
             /\ edge_function(NextTriple[1], NextTriple[2], NextTriple[3]) = 0)
          => /\ fragments' = <<>>
             /\ framebuffer' = framebuffer
             /\ chunk_idx' = chunk_idx + 1
             /\ pc' = "render"
       /\ (pc = "render" /\ pc' \notin {"render", "shade"})
          => chunk_idx = (Len(transformed_vertices) + 2) \div 3]_vars

\* A degenerate triangle was taken first, and the triangle after it is being drawn.
C4_Witness ==
    /\ pc = "shade" /\ chunk_idx = 2 /\ rasterized = 2 /\ frag_idx >= 1
    /\ LET tv == transformed_vertices
       IN  /\ edge_function(tv[1], tv[2], tv[3]) = 0
           /\ tv[1] # tv[3]
    /\ in_bounds(framebuffer, fragments[1].position[1], fragments[1].position[2])
    /\ framebuffer.buffer[fragments[1].position] # framebuffer.background_color

FrameOrder == <<"input", "clear", "sun", "rocky", "gas", "present", "sleep">>

(* C5: in every loop iteration the framebuffer is cleared once, before any  *)
(* pixel of the frame is drawn, and presented once, after the three draw    *)
(* calls have returned; no pixel changes between a presentation and the     *)
(* next clear.                                                              *)
C5_ClearDrawPresent ==
    /\ [](IsPrefix(frame_log, FrameOrder))
    /\ [](pc = "check" /\ frame > 0 => frame_log = FrameOrder)
    /\ [][/\ framebuffer' # framebuffer =>
                /\ "clear" \in Range(frame_log') /\ "present" \notin Range(frame_log')
                /\ (frame_log' # frame_log =>
                      framebuffer'.buffer = [p \in DOMAIN framebuffer.buffer |-> framebuffer.background_color])
          /\ displayed' # displayed =>
                /\ frame_log = SubSeq(FrameOrder, 1, 5)
                /\ frame_log' = SubSeq(FrameOrder, 1, 6)
                /\ displayed' = framebuffer.buffer]_vars

C5_Witness ==
    /\ pc = "check" /\ frame = 2 /\ frame_log = FrameOrder
    /\ displayed = framebuffer.buffer
    /\ \E p \in DOMAIN displayed : displayed[p] # framebuffer.background_color

\* The triangles of the frame in painting order: sun, rocky planet, gas planet,
\* each body's triangles in mesh order.
PaintLayers ==
    LET m == Len(vertex_array) \div 3
        order == <<"sun", "rocky", "gas">>
        tv == [b \in Bodies |->
                  transform_vertices(vertex_array, body_uniforms(b, orbit_angle, zoom, rotation))]
    IN  [n \in 1..(3 * m) |->
            LET b == order[((n - 1) \div m) + 1]
                k == (n - 1) % m
            IN  [body |-> b,
                 fragments |-> triangle(tv[b][3 * k + 1], tv[b][3 * k + 2], tv[b][3 * k + 3])]]

\* The layers among `layers` that cover pixel p.
Covering(layers, p) == {n \in 1..Len(layers) : p \in Positions(layers[n].fragments)}

\* The colour of pixel p when the layers are painted in order over the background.
Painted(layers, p) ==
    LET cov == Covering(layers, p)
        top == CHOOSE n \in cov : \A j \in cov : j <= n
        f   == CHOOSE g \in Range(layers[top].fragments) : g.position = p
    IN  IF cov = {} THEN framebuffer.background_color
        ELSE call_shader(body_shader(layers[top].body), <<p[1], p[2], f.depth>>)

PainterImage ==
    LET layers == PaintLayers
    IN  [p \in Pixels(framebuffer.width, framebuffer.height) |-> Painted(layers, p)]

(* C6: the bodies are drawn sun, rocky planet, gas planet, with no depth    *)
(* test: what is presented holds, at each pixel, the colour written by the  *)
(* last body in that order that covers it and, within the body, by its last *)
(* triangle in mesh order that covers it, and the background elsewhere.     *)
C6_PaintersOrder ==
    "present" \in Range(frame_log) => displayed = PainterImage

\* A presented pixel covered by the sun and by a planet.
C6_Witness ==
    /\ "present" \in Range(frame_log)
    /\ LET layers == PaintLayers
       IN  \E p \in DOMAIN displayed :
              /\ \E n \in Covering(layers, p) : layers[n].body = "sun"
              /\ \E n \in Covering(layers, p) : layers[n].body = "rocky"
              /\ displayed[p] \in {rocky_shader(<<p[1], p[2], <<d, 1>>>>) : d \in 0..1}

(* C7: after clearing a 10 x 10 framebuffer to black and drawing one        *)
(* triangle with the star shader, a pixel is non-black exactly if the       *)
(* triangle covers it.                                                      *)
C7_StarTriangleOnBlack ==
    pc = "ret" =>
        \A p \in Pixels(10, 10) :
            framebuffer.buffer[p] # BLACK <=> InClosedTriangle(p, fn_in[1], fn_in[2], fn_in[3])

\* A triangle partly outside the buffer: some pixels lit, some black.
C7_Witness ==
    /\ pc = "ret"
    /\ fn_in = << <<-2, 3, 0>>, <<3, -2, 0>>, <<11, 11, 5>> >>
    /\ \E p \in Pixels(10, 10) : framebuffer.buffer[p] # BLACK
    /\ \E p \in Pixels(10, 10) : framebuffer.buffer[p] = BLACK

(* C8: the loop is left only at its condition and only when the window      *)
(* reports a close request; an iteration that has begun runs all its        *)
(* statements before the condition is evaluated again; and once a close     *)
(* request is reported to the running loop, the loop terminates.            *)
C8_LoopExit ==
    /\ [][/\ (pc' = "done" /\ pc # "done") => (pc = "check" /\ close_requested)
          /\ (pc = "check" /\ pc' = "frame") => ~close_requested
          /\ pc = "done" => pc' = "done"]_vars
    /\ [](pc \in {"check", "done"} => frame_log \in {<<>>, FrameOrder})
    /\ [](pc = "check" /\ frame > 0 => frame_log = FrameOrder)
    /\ ((close_requested /\ pc \in {"check", "frame", "render"}) ~> pc = "done")

\* The loop has ended after two whole iterations.
C8_Witness == pc = "done" /\ frame = 2 /\ frame_log = FrameOrder /\ close_requested

(* C9: if loading the mesh fails the process stops before the first loop    *)
(* iteration: nothing is cleared, drawn or presented, then or later.        *)
C9_LoadFailureIsFatal ==
    obj = "err" =>
        /\ pc = "panicked"
        /\ frame = 0 /\ frame_log = <<>>
        /\ displayed = Nothing
        /\ framebuffer = set_background_color(Framebuffer_new(window_width, window_height), background)
        /\ ~ENABLED Program

C9_Witness == obj = "err" /\ pc = "panicked" /\ close_requested

(* C10: triangles are the consecutive, non-overlapping runs of three        *)
(* transformed vertices 3k, 3k+1, 3k+2: a mesh of n vertices rasterizes     *)
(* floor(n/3) triangles, and a trailing run of one or two vertices is       *)
(* skipped without an error and without writing a pixel.                    *)
C10_RunsOfThree ==
    [][/\ ChunkStep =>
            /\ chunk_idx' = chunk_idx + 1
            /\ framebuffer' = framebuffer
            /\ IF NextTriple # <<>>
               THEN /\ rasterized' = rasterized + 1
                    /\ pc' = "shade" =>
                          fragments' = triangle(NextTriple[1], NextTriple[2], NextTriple[3])
                    /\ pc' # "shade" =>
                          triangle(NextTriple[1], NextTriple[2], NextTriple[3]) = <<>>
               ELSE /\ rasterized' = rasterized
                    /\ pc' = "render"
       /\ FragmentStep => rasterized >= 1 /\ chunk_idx <= Len(transformed_vertices) \div 3
       /\ (pc = "render" /\ pc' \notin {"render", "shade"}) =>
            /\ rasterized = Len(transformed_vertices) \div 3
            /\ chunk_idx = (Len(transformed_vertices) + 2) \div 3]_vars

\* A mesh of four vertices: one triangle drawn, the run of one vertex skipped.
C10_Witness ==
    /\ pc = "render" /\ Len(transformed_vertices) = 4
    /\ chunk_idx = 2 /\ rasterized = 1
    /\ \E p \in DOMAIN framebuffer.buffer : framebuffer.buffer[p] # framebuffer.background_color

====
